---- MODULE Spec2Model ----
(***************************************************************************)
(* Model of the geometry engine of drs-primitives (src/src/lib.rs): the    *)
(* Coord algebra, the Segment predicates (contains, strictly_contains,     *)
(* is_contiguous, intersection, distance_from_point, reverse) and the Road *)
(* aggregate operations (length, distance_from_nearest_point, length_from, *)
(* intersections).                                                         *)
(*                                                                         *)
(* f64 values are modelled exactly.  A value is a triple <<n, d, k>>:      *)
(*   d > 0 : the finite number (n/d) * sqrt(k), in lowest terms, k         *)
(*           square-free (k = 1 for a rational);                           *)
(*   d = 0 : a non-finite value, +Infinity <<1,0,1>>, -Infinity <<-1,0,1>> *)
(*           or NaN <<0,0,1>>.                                             *)
(* The arithmetic follows IEEE 754 on the non-finite values (x/0, 0/0,     *)
(* Inf-Inf, 0*Inf, every comparison with NaN false).  Two things are not   *)
(* modelled: the sign of zero (a divisor 0 is +0) and the rounding of      *)
(* finite results.  The inputs are integer degrees, for which every        *)
(* quantity the predicates compare with TOLERANCE is either 0 or larger    *)
(* than 1/1000, so a rounding error of a few ulps changes no comparison.   *)
(***************************************************************************)
EXTENDS Integers, Sequences, FiniteSets, TLC

\* ------------------------------------------------------------------ bounds
\* Coordinates are integer degrees: latitude 0..MaxLat, longitude 0..MaxLon.
MaxLat == 3
MaxLon == 1
\* The two segments of intersection have their ends on latitudes 0..MaxPairLat
\* and longitudes 0..MaxPairLon (the pairs of layered segments are the state
\* space there).
MaxPairLat == 2
MaxPairLon == 1
\* A road has 1..MaxSegs segments.
MaxSegs == 2
\* The two roads of intersections run on latitudes 0..MaxCrossLat and
\* longitudes 0..MaxCrossLon (the pairs of roads are the state space there).
MaxCrossLat == 1
MaxCrossLon == 1

\* ------------------------------------------------------------- f64 values
NaN == <<0, 0, 1>>
PosInf == <<1, 0, 1>>
NegInf == <<-1, 0, 1>>

AbsInt(n) == IF n < 0 THEN -n ELSE n
SignInt(n) == IF n < 0 THEN -1 ELSE IF n > 0 THEN 1 ELSE 0

RECURSIVE GCD(_, _)
GCD(m, n) == IF n = 0 THEN m ELSE GCD(n, m % n)

\* The largest s with s*s dividing k (k >= 1).
SquarePart(k) == CHOOSE s \in 1..k : /\ k % (s * s) = 0
                                     /\ \A t \in (s + 1)..k : k % (t * t) # 0

\* The finite value (n/d)*sqrt(k) in canonical form; d # 0, k >= 0.
Mk(n, d, k) ==
    IF n = 0 \/ k = 0 THEN <<0, 1, 1>>
    ELSE LET s  == IF k = 1 THEN 1 ELSE SquarePart(k)
             nn == n * s * SignInt(d)
             dd == AbsInt(d)
             g  == GCD(AbsInt(nn), dd)
         IN  <<nn \div g, dd \div g, k \div (s * s)>>

F(n) == <<n, 1, 1>>
IsNaN(x) == x[2] = 0 /\ x[1] = 0
IsFinite(x) == x[2] # 0
IsZero(x) == x[2] # 0 /\ x[1] = 0
Sign(x) == SignInt(x[1])

FNeg(x) == <<-x[1], x[2], x[3]>>

\* x + y.  Finite operands must be commensurable (same radical), which is the
\* case for every sum the program forms on rational inputs.
FAdd(x, y) ==
    CASE IsNaN(x) \/ IsNaN(y) -> NaN
      [] ~IsFinite(x) /\ ~IsFinite(y) -> IF x = y THEN x ELSE NaN
      [] ~IsFinite(x) -> x
      [] ~IsFinite(y) -> y
      [] IsZero(x) -> y
      [] IsZero(y) -> x
      [] x[3] = y[3] -> Mk(x[1] * y[2] + y[1] * x[2], x[2] * y[2], x[3])

FSub(x, y) == FAdd(x, FNeg(y))

FMul(x, y) ==
    CASE IsNaN(x) \/ IsNaN(y) -> NaN
      [] ~IsFinite(x) \/ ~IsFinite(y) ->
            IF IsZero(x) \/ IsZero(y) THEN NaN
            ELSE <<Sign(x) * Sign(y), 0, 1>>
      [] OTHER -> Mk(x[1] * y[1], x[2] * y[2], x[3] * y[3])

FDiv(x, y) ==
    CASE IsNaN(x) \/ IsNaN(y) -> NaN
      [] ~IsFinite(x) /\ ~IsFinite(y) -> NaN
      [] ~IsFinite(x) -> <<Sign(x) * (IF Sign(y) < 0 THEN -1 ELSE 1), 0, 1>>
      [] ~IsFinite(y) -> F(0)
      [] IsZero(y) -> <<Sign(x), 0, 1>>
      [] OTHER -> Mk(x[1] * y[2], x[2] * y[1] * y[3], x[3] * y[3])

\* sqrt of a rational.
FSqrt(x) ==
    CASE IsNaN(x) -> NaN
      [] ~IsFinite(x) -> IF Sign(x) > 0 THEN PosInf ELSE NaN
      [] Sign(x) < 0 -> NaN
      [] x[3] = 1 -> Mk(1, x[2], x[1] * x[2])

FAbs(x) == <<AbsInt(x[1]), x[2], x[3]>>

\* x < y, x > y, x == y of f64: false as soon as one side is NaN.
FLt(x, y) == Sign(FSub(y, x)) > 0
FGt(x, y) == FLt(y, x)
FEq(x, y) == ~IsNaN(x) /\ ~IsNaN(y) /\ x = y

\* f64::min, f64::max: the other operand when one is NaN.
FMin(x, y) == IF IsNaN(x) THEN y ELSE IF IsNaN(y) THEN x ELSE IF FLt(y, x) THEN y ELSE x
FMax(x, y) == IF IsNaN(x) THEN y ELSE IF IsNaN(y) THEN x ELSE IF FLt(x, y) THEN y ELSE x

\* TOLERANCE = 1e-9 = 1/TolInv.
TolInv == 1000000000
\* x > TOLERANCE and x < TOLERANCE for a rational x = n/d, by cross
\* multiplication (n*TolInv > d) written so as to stay within 32 bits.
GtTolerance(x) ==
    CASE ~IsFinite(x) -> Sign(x) > 0
      [] x[3] = 1 -> x[1] > x[2] \div TolInv
LtTolerance(x) ==
    CASE ~IsFinite(x) -> Sign(x) < 0
      [] x[3] = 1 -> x[1] <= (x[2] - 1) \div TolInv

\* Option<T>: None is the empty sequence, Some(x) the sequence <<x>>.
None == <<>>
Some(x) == <<x>>

\* ------------------------------------------------------------------ Coord
Coord(lat, lon) == [lat |-> lat, lon |-> lon]

sub(self, o) == Coord(FSub(self.lat, o.lat), FSub(self.lon, o.lon))
add(self, o) == Coord(FAdd(self.lat, o.lat), FAdd(self.lon, o.lon))
div(self, d) == Coord(FDiv(self.lat, d), FDiv(self.lon, d))
mul(self, m) == Coord(FMul(self.lat, m), FMul(self.lon, m))
eq(self, o) == FEq(self.lat, o.lat) /\ FEq(self.lon, o.lon)

norm(self) == FSqrt(FAdd(FMul(self.lat, self.lat), FMul(self.lon, self.lon)))
normalized(self) == div(self, norm(self))
dot(self, o) == FAdd(FMul(o.lat, self.lat), FMul(o.lon, self.lon))

\* Coord::distance, the haversine distance 12742 * asin(sqrt(a)) with
\*   a = 0.5 - cos(dlat)/2 + cos(lat1) * cos(lat2) * (1 - cos(dlon))/2,
\* tabulated in millimetres (rounded to the nearest) for the arguments the
\* operations form on latitudes 0..4 and longitudes 0..2.  The formula is
\* symmetric in the two latitudes and even in dlon, so the key is
\* <<lower latitude, higher latitude, |dlon|>>, each a rational <<n, d>>.
\* Distinct f64 distances of these arguments differ by more than 1 mm, so the
\* table orders and equates distances exactly as the f64 values do.
HaversineMm ==
    <<<<0, 1>>, <<0, 1>>, <<0, 1>>>> :> 0 @@
    <<<<0, 1>>, <<0, 1>>, <<1, 1>>>> :> 111194927 @@
    <<<<0, 1>>, <<0, 1>>, <<2, 1>>>> :> 222389853 @@
    <<<<0, 1>>, <<4, 17>>, <<16, 17>>>> :> 107874639 @@
    <<<<0, 1>>, <<3, 10>>, <<9, 10>>>> :> 105488336 @@
    <<<<0, 1>>, <<2, 5>>, <<1, 5>>>> :> 49727802 @@
    <<<<0, 1>>, <<2, 5>>, <<4, 5>>>> :> 99455120 @@
    <<<<0, 1>>, <<6, 13>>, <<9, 13>>>> :> 92519079 @@
    <<<<0, 1>>, <<8, 17>>, <<32, 17>>>> :> 215747565 @@
    <<<<0, 1>>, <<1, 2>>, <<1, 2>>>> :> 78626188 @@
    <<<<0, 1>>, <<3, 5>>, <<9, 5>>>> :> 210974069 @@
    <<<<0, 1>>, <<4, 5>>, <<2, 5>>>> :> 99455120 @@
    <<<<0, 1>>, <<4, 5>>, <<8, 5>>>> :> 198906361 @@
    <<<<0, 1>>, <<12, 13>>, <<18, 13>>>> :> 185034001 @@
    <<<<0, 1>>, <<1, 1>>, <<0, 1>>>> :> 111194927 @@
    <<<<0, 1>>, <<1, 1>>, <<1, 1>>>> :> 157249381 @@
    <<<<0, 1>>, <<1, 1>>, <<2, 1>>>> :> 248629315 @@
    <<<<0, 1>>, <<6, 5>>, <<3, 5>>>> :> 149181467 @@
    <<<<0, 1>>, <<16, 13>>, <<24, 13>>>> :> 246706253 @@
    <<<<0, 1>>, <<3, 2>>, <<3, 2>>>> :> 235866586 @@
    <<<<0, 1>>, <<8, 5>>, <<4, 5>>>> :> 198906361 @@
    <<<<0, 1>>, <<2, 1>>, <<0, 1>>>> :> 222389853 @@
    <<<<0, 1>>, <<2, 1>>, <<1, 1>>>> :> 248629315 @@
    <<<<0, 1>>, <<2, 1>>, <<2, 1>>>> :> 314474805 @@
    <<<<0, 1>>, <<12, 5>>, <<6, 5>>>> :> 298349844 @@
    <<<<0, 1>>, <<3, 1>>, <<0, 1>>>> :> 333584780 @@
    <<<<0, 1>>, <<3, 1>>, <<1, 1>>>> :> 351613162 @@
    <<<<0, 1>>, <<3, 1>>, <<2, 1>>>> :> 400862624 @@
    <<<<0, 1>>, <<16, 5>>, <<8, 5>>>> :> 397781687 @@
    <<<<0, 1>>, <<4, 1>>, <<0, 1>>>> :> 444779707 @@
    <<<<0, 1>>, <<4, 1>>, <<1, 1>>>> :> 458446512 @@
    <<<<0, 1>>, <<4, 1>>, <<2, 1>>>> :> 497198001 @@
    <<<<1, 5>>, <<1, 1>>, <<2, 5>>>> :> 99454514 @@
    <<<<2, 5>>, <<1, 1>>, <<6, 5>>>> :> 149174196 @@
    <<<<2, 5>>, <<2, 1>>, <<4, 5>>>> :> 198901514 @@
    <<<<1, 2>>, <<1, 1>>, <<1, 2>>>> :> 78623194 @@
    <<<<1, 2>>, <<2, 1>>, <<3, 2>>>> :> 235848622 @@
    <<<<3, 5>>, <<1, 1>>, <<1, 5>>>> :> 49726893 @@
    <<<<3, 5>>, <<1, 1>>, <<6, 5>>>> :> 140639096 @@
    <<<<3, 5>>, <<3, 1>>, <<6, 5>>>> :> 298333485 @@
    <<<<9, 13>>, <<1, 1>>, <<6, 13>>>> :> 61675140 @@
    <<<<12, 17>>, <<1, 1>>, <<20, 17>>>> :> 134829453 @@
    <<<<4, 5>>, <<1, 1>>, <<2, 5>>>> :> 49722955 @@
    <<<<4, 5>>, <<2, 1>>, <<3, 5>>>> :> 149174197 @@
    <<<<4, 5>>, <<4, 1>>, <<8, 5>>>> :> 397742912 @@
    <<<<9, 10>>, <<1, 1>>, <<3, 10>>>> :> 35158569 @@
    <<<<16, 17>>, <<1, 1>>, <<4, 17>>>> :> 26965088 @@
    <<<<1, 1>>, <<1, 1>>, <<0, 1>>>> :> 0 @@
    <<<<1, 1>>, <<1, 1>>, <<1, 1>>>> :> 111177991 @@
    <<<<1, 1>>, <<1, 1>>, <<2, 1>>>> :> 222355979 @@
    <<<<1, 1>>, <<15, 13>>, <<3, 13>>>> :> 30836146 @@
    <<<<1, 1>>, <<20, 17>>, <<12, 17>>>> :> 80892428 @@
    <<<<1, 1>>, <<6, 5>>, <<2, 5>>>> :> 49720531 @@
    <<<<1, 1>>, <<6, 5>>, <<3, 5>>>> :> 70314150 @@
    <<<<1, 1>>, <<13, 10>>, <<9, 10>>>> :> 105469538 @@
    <<<<1, 1>>, <<7, 5>>, <<1, 5>>>> :> 49725682 @@
    <<<<1, 1>>, <<7, 5>>, <<4, 5>>>> :> 99438154 @@
    <<<<1, 1>>, <<24, 17>>, <<28, 17>>>> :> 188741382 @@
    <<<<1, 1>>, <<19, 13>>, <<9, 13>>>> :> 92504821 @@
    <<<<1, 1>>, <<3, 2>>, <<1, 2>>>> :> 78617207 @@
    <<<<1, 1>>, <<3, 2>>, <<3, 2>>>> :> 175776457 @@
    <<<<1, 1>>, <<8, 5>>, <<6, 5>>>> :> 149152384 @@
    <<<<1, 1>>, <<8, 5>>, <<9, 5>>>> :> 210927794 @@
    <<<<1, 1>>, <<21, 13>>, <<12, 13>>>> :> 123337042 @@
    <<<<1, 1>>, <<9, 5>>, <<2, 5>>>> :> 99449667 @@
    <<<<1, 1>>, <<9, 5>>, <<8, 5>>>> :> 198862734 @@
    <<<<1, 1>>, <<25, 13>>, <<18, 13>>>> :> 184996479 @@
    <<<<1, 1>>, <<2, 1>>, <<0, 1>>>> :> 111194927 @@
    <<<<1, 1>>, <<2, 1>>, <<1, 1>>>> :> 157225432 @@
    <<<<1, 1>>, <<2, 1>>, <<2, 1>>>> :> 248568719 @@
    <<<<1, 1>>, <<11, 5>>, <<3, 5>>>> :> 149171471 @@
    <<<<1, 1>>, <<5, 2>>, <<3, 2>>>> :> 235821680 @@
    <<<<1, 1>>, <<13, 5>>, <<4, 5>>>> :> 198890610 @@
    <<<<1, 1>>, <<3, 1>>, <<0, 1>>>> :> 222389853 @@
    <<<<1, 1>>, <<3, 1>>, <<1, 1>>>> :> 248606597 @@
    <<<<1, 1>>, <<3, 1>>, <<2, 1>>>> :> 314402951 @@
    <<<<1, 1>>, <<17, 5>>, <<6, 5>>>> :> 298318948 @@
    <<<<1, 1>>, <<4, 1>>, <<0, 1>>>> :> 333584780 @@
    <<<<1, 1>>, <<4, 1>>, <<1, 1>>>> :> 351591746 @@
    <<<<1, 1>>, <<4, 1>>, <<2, 1>>>> :> 400787475 @@
    <<<<6, 5>>, <<2, 1>>, <<2, 5>>>> :> 99447850 @@
    <<<<6, 5>>, <<2, 1>>, <<8, 5>>>> :> 198848193 @@
    <<<<18, 13>>, <<2, 1>>, <<12, 13>>>> :> 123322036 @@
    <<<<7, 5>>, <<2, 1>>, <<6, 5>>>> :> 149130573 @@
    <<<<7, 5>>, <<3, 1>>, <<4, 5>>>> :> 198880920 @@
    <<<<3, 2>>, <<2, 1>>, <<1, 2>>>> :> 78608228 @@
    <<<<3, 2>>, <<2, 1>>, <<3, 2>>>> :> 175740309 @@
    <<<<3, 2>>, <<3, 1>>, <<3, 2>>>> :> 235785765 @@
    <<<<8, 5>>, <<2, 1>>, <<1, 5>>>> :> 49722956 @@
    <<<<8, 5>>, <<2, 1>>, <<4, 5>>>> :> 99416345 @@
    <<<<8, 5>>, <<2, 1>>, <<6, 5>>>> :> 140588972 @@
    <<<<8, 5>>, <<4, 1>>, <<6, 5>>>> :> 298291703 @@
    <<<<28, 17>>, <<2, 1>>, <<24, 17>>>> :> 161735017 @@
    <<<<22, 13>>, <<2, 1>>, <<6, 13>>>> :> 61657633 @@
    <<<<9, 5>>, <<2, 1>>, <<2, 5>>>> :> 49705992 @@
    <<<<9, 5>>, <<2, 1>>, <<3, 5>>>> :> 70291017 @@
    <<<<9, 5>>, <<3, 1>>, <<3, 5>>>> :> 149156939 @@
    <<<<24, 13>>, <<2, 1>>, <<3, 13>>>> :> 30827893 @@
    <<<<32, 17>>, <<2, 1>>, <<8, 17>>>> :> 53908321 @@
    <<<<19, 10>>, <<2, 1>>, <<3, 10>>>> :> 35144593 @@
    <<<<2, 1>>, <<2, 1>>, <<0, 1>>>> :> 0 @@
    <<<<2, 1>>, <<2, 1>>, <<1, 1>>>> :> 111127188 @@
    <<<<2, 1>>, <<2, 1>>, <<2, 1>>>> :> 222254366 @@
    <<<<2, 1>>, <<21, 10>>, <<3, 10>>>> :> 35142666 @@
    <<<<2, 1>>, <<36, 17>>, <<8, 17>>>> :> 53904683 @@
    <<<<2, 1>>, <<28, 13>>, <<3, 13>>>> :> 30825893 @@
    <<<<2, 1>>, <<11, 5>>, <<2, 5>>>> :> 49701146 @@
    <<<<2, 1>>, <<11, 5>>, <<3, 5>>>> :> 70283307 @@
    <<<<2, 1>>, <<30, 13>>, <<6, 13>>>> :> 61649631 @@
    <<<<2, 1>>, <<40, 17>>, <<24, 17>>>> :> 161702276 @@
    <<<<2, 1>>, <<12, 5>>, <<1, 5>>>> :> 49720534 @@
    <<<<2, 1>>, <<12, 5>>, <<4, 5>>>> :> 99396961 @@
    <<<<2, 1>>, <<12, 5>>, <<6, 5>>>> :> 140558130 @@
    <<<<2, 1>>, <<5, 2>>, <<1, 2>>>> :> 78596258 @@
    <<<<2, 1>>, <<5, 2>>, <<3, 2>>>> :> 175692118 @@
    <<<<2, 1>>, <<13, 5>>, <<6, 5>>>> :> 149086959 @@
    <<<<2, 1>>, <<34, 13>>, <<12, 13>>>> :> 123290028 @@
    <<<<2, 1>>, <<14, 5>>, <<2, 5>>>> :> 99438162 @@
    <<<<2, 1>>, <<14, 5>>, <<8, 5>>>> :> 198770654 @@
    <<<<2, 1>>, <<3, 1>>, <<0, 1>>>> :> 111194927 @@
    <<<<2, 1>>, <<3, 1>>, <<1, 1>>>> :> 157177552 @@
    <<<<2, 1>>, <<3, 1>>, <<2, 1>>>> :> 248447558 @@
    <<<<2, 1>>, <<16, 5>>, <<3, 5>>>> :> 149152399 @@
    <<<<2, 1>>, <<7, 2>>, <<3, 2>>>> :> 235740884 @@
    <<<<2, 1>>, <<18, 5>>, <<4, 5>>>> :> 198862760 @@
    <<<<2, 1>>, <<4, 1>>, <<0, 1>>>> :> 222389853 @@
    <<<<2, 1>>, <<4, 1>>, <<1, 1>>>> :> 248568761 @@
    <<<<2, 1>>, <<4, 1>>, <<2, 1>>>> :> 314283255 @@
    <<<<27, 13>>, <<3, 1>>, <<18, 13>>>> :> 184912457 @@
    <<<<11, 5>>, <<3, 1>>, <<2, 5>>>> :> 99435135 @@
    <<<<11, 5>>, <<3, 1>>, <<8, 5>>>> :> 198746427 @@
    <<<<31, 13>>, <<3, 1>>, <<12, 13>>>> :> 123265028 @@
    <<<<12, 5>>, <<3, 1>>, <<6, 5>>>> :> 149050620 @@
    <<<<12, 5>>, <<3, 1>>, <<9, 5>>>> :> 210765871 @@
    <<<<12, 5>>, <<4, 1>>, <<4, 5>>>> :> 198848238 @@
    <<<<5, 2>>, <<3, 1>>, <<1, 2>>>> :> 78581300 @@
    <<<<5, 2>>, <<3, 1>>, <<3, 2>>>> :> 175631888 @@
    <<<<5, 2>>, <<4, 1>>, <<3, 2>>>> :> 235687047 @@
    <<<<33, 13>>, <<3, 1>>, <<9, 13>>>> :> 92444811 @@
    <<<<44, 17>>, <<3, 1>>, <<28, 17>>>> :> 188569495 @@
    <<<<13, 5>>, <<3, 1>>, <<1, 5>>>> :> 49715995 @@
    <<<<13, 5>>, <<3, 1>>, <<4, 5>>>> :> 99360624 @@
    <<<<27, 10>>, <<3, 1>>, <<9, 10>>>> :> 105371237 @@
    <<<<36, 13>>, <<4, 1>>, <<24, 13>>>> :> 246418200 @@
    <<<<14, 5>>, <<3, 1>>, <<2, 5>>>> :> 49676922 @@
    <<<<14, 5>>, <<3, 1>>, <<3, 5>>>> :> 70244763 @@
    <<<<14, 5>>, <<4, 1>>, <<3, 5>>>> :> 149130618 @@
    <<<<48, 17>>, <<3, 1>>, <<12, 17>>>> :> 80807856 @@
    <<<<37, 13>>, <<3, 1>>, <<3, 13>>>> :> 30812143 @@
    <<<<3, 1>>, <<3, 1>>, <<0, 1>>>> :> 0 @@
    <<<<3, 1>>, <<3, 1>>, <<1, 1>>>> :> 111042534 @@
    <<<<3, 1>>, <<3, 1>>, <<2, 1>>>> :> 222085045 @@
    <<<<3, 1>>, <<52, 17>>, <<4, 17>>>> :> 26933260 @@
    <<<<3, 1>>, <<31, 10>>, <<3, 10>>>> :> 35118094 @@
    <<<<3, 1>>, <<16, 5>>, <<2, 5>>>> :> 49669656 @@
    <<<<3, 1>>, <<56, 17>>, <<20, 17>>>> :> 134652123 @@
    <<<<3, 1>>, <<43, 13>>, <<6, 13>>>> :> 61615135 @@
    <<<<3, 1>>, <<17, 5>>, <<1, 5>>>> :> 49712365 @@
    <<<<3, 1>>, <<17, 5>>, <<6, 5>>>> :> 140454064 @@
    <<<<3, 1>>, <<7, 2>>, <<1, 2>>>> :> 78563357 @@
    <<<<3, 1>>, <<18, 5>>, <<6, 5>>>> :> 148985226 @@
    <<<<3, 1>>, <<19, 5>>, <<2, 5>>>> :> 99420616 @@
    <<<<3, 1>>, <<4, 1>>, <<0, 1>>>> :> 111194927 @@
    <<<<3, 1>>, <<4, 1>>, <<1, 1>>>> :> 157105777 @@
    <<<<3, 1>>, <<4, 1>>, <<2, 1>>>> :> 248265889 @@
    <<<<40, 13>>, <<4, 1>>, <<18, 13>>>> :> 184793986 @@
    <<<<16, 5>>, <<4, 1>>, <<2, 5>>>> :> 99416383 @@
    <<<<16, 5>>, <<4, 1>>, <<8, 5>>>> :> 198596263 @@
    <<<<17, 5>>, <<4, 1>>, <<9, 5>>>> :> 210580890 @@
    <<<<7, 2>>, <<4, 1>>, <<1, 2>>>> :> 78542432 @@
    <<<<60, 17>>, <<4, 1>>, <<32, 17>>>> :> 215311080 @@
    <<<<46, 13>>, <<4, 1>>, <<9, 13>>>> :> 92381091 @@
    <<<<18, 5>>, <<4, 1>>, <<1, 5>>>> :> 49706016 @@
    <<<<18, 5>>, <<4, 1>>, <<4, 5>>>> :> 99280713 @@
    <<<<37, 10>>, <<4, 1>>, <<9, 10>>>> :> 105274425 @@
    <<<<64, 17>>, <<4, 1>>, <<16, 17>>>> :> 107641871 @@
    <<<<4, 1>>, <<4, 1>>, <<0, 1>>>> :> 0 @@
    <<<<4, 1>>, <<4, 1>>, <<1, 1>>>> :> 110924055 @@
    <<<<4, 1>>, <<4, 1>>, <<2, 1>>>> :> 221848068

Q(x) == CASE IsFinite(x) /\ x[3] = 1 -> <<x[1], x[2]>>
distance(self, from) ==
    HaversineMm[<<Q(FMin(self.lat, from.lat)), Q(FMax(self.lat, from.lat)),
                  Q(FAbs(FSub(from.lon, self.lon)))>>]

\* ---------------------------------------------------------------- Segment
Segment(a, b, layer) == [a |-> a, b |-> b, layer |-> layer]

\* contains with the collinearity test written as "not beyond the tolerance":
\* a NaN cross product then passes.
contains_accepting_nan(self, point) ==
    IF \/ GtTolerance(FSub(FMin(self.a.lon, self.b.lon), point.lon))
       \/ GtTolerance(FSub(point.lon, FMax(self.a.lon, self.b.lon)))
       \/ GtTolerance(FSub(FMin(self.a.lat, self.b.lat), point.lat))
       \/ GtTolerance(FSub(point.lat, FMax(self.a.lat, self.b.lat)))
    THEN FALSE
    ELSE LET a == sub(point, self.a)
             b == sub(self.b, self.a)
         IN  ~GtTolerance(FAbs(FSub(FMul(a.lon, b.lat), FMul(a.lat, b.lon))))

contains(self, point) ==
    IF \/ GtTolerance(FSub(FMin(self.a.lon, self.b.lon), point.lon))
       \/ GtTolerance(FSub(point.lon, FMax(self.a.lon, self.b.lon)))
       \/ GtTolerance(FSub(FMin(self.a.lat, self.b.lat), point.lat))
       \/ GtTolerance(FSub(point.lat, FMax(self.a.lat, self.b.lat)))
    THEN FALSE
    ELSE LET a == sub(point, self.a)
             b == sub(self.b, self.a)
         IN  LtTolerance(FAbs(FSub(FMul(a.lon, b.lat), FMul(a.lat, b.lon))))

near(point, end) ==
    /\ LtTolerance(FAbs(FSub(point.lat, end.lat)))
    /\ LtTolerance(FAbs(FSub(point.lon, end.lon)))

\* strictly_contains that forgets the end b.
strictly_contains_ignoring_b(self, point) ==
    IF near(point, self.a) THEN FALSE ELSE contains(self, point)

strictly_contains(self, point) ==
    IF near(point, self.a) THEN FALSE
    ELSE IF near(point, self.b) THEN FALSE
    ELSE contains(self, point)

is_contiguous(self, with_) ==
    IF eq(self.a, with_.a) /\ eq(self.b, with_.b) THEN FALSE
    ELSE \/ contains(self, with_.a) \/ contains(self, with_.b)
         \/ contains(with_, self.a) \/ contains(with_, self.b)

\* The layer rule without the contiguity test.
layer_suppressed_ignoring_contiguity(self, other) ==
    /\ self.layer # None
    /\ self.layer # other.layer

\* The early return of intersection: the layer rule.
layer_suppressed(self, other) ==
    /\ self.layer # None
    /\ ~is_contiguous(self, other)
    /\ self.layer # other.layer

\* The determinant of the two lines' system, `over`.
over(self, other) ==
    LET ap == FSub(self.b.lon, self.a.lon)
        bp == FSub(self.a.lat, self.b.lat)
        aq == FSub(other.b.lon, other.a.lon)
        bq == FSub(other.a.lat, other.b.lat)
    IN  FSub(FMul(ap, bq), FMul(aq, bp))

\* The candidate point `ans`: Cramer's rule on the two lines.
line_intersection(self, other) ==
    LET p1 == self.a
        p2 == self.b
        q1 == other.a
        q2 == other.b
        ap == FSub(p2.lon, p1.lon)
        bp == FSub(p1.lat, p2.lat)
        cp == FSub(FMul(FNeg(p2.lat), ap), FMul(p2.lon, bp))
        aq == FSub(q2.lon, q1.lon)
        bq == FSub(q1.lat, q2.lat)
        cq == FSub(FMul(FNeg(q2.lat), aq), FMul(q2.lon, bq))
    IN  Coord(FDiv(FSub(FMul(bp, cq), FMul(bq, cp)), over(self, other)),
              FDiv(FSub(FMul(aq, cp), FMul(ap, cq)), over(self, other)))

\* The final test on self only.
within_self_only(self, other, ans) == contains(self, ans)

\* The final test with strict containment: a touch at an endpoint is lost.
within_both_strictly(self, other, ans) ==
    strictly_contains(self, ans) /\ strictly_contains(other, ans)

\* The rest of intersection: `ans` is returned when both segments contain it.
within_both(self, other, ans) == contains(self, ans) /\ contains(other, ans)

intersection(self, other) ==
    IF layer_suppressed(self, other) THEN None
    ELSE LET ans == line_intersection(self, other)
         IN  IF within_both(self, other, ans) THEN Some(ans) ELSE None

length(self) == distance(self.a, self.b)

\* The clamping branch with the comparison turned round.
farther_end(self, point) ==
    LET distance_a == distance(point, self.a)
        distance_b == distance(point, self.b)
    IN  IF distance_a > distance_b THEN <<distance_a, self.a>>
        ELSE <<distance_b, self.b>>

\* The clamping branch of distance_from_point: the endpoint closer to point.
closer_end(self, point) ==
    LET distance_a == distance(point, self.a)
        distance_b == distance(point, self.b)
    IN  IF distance_a < distance_b THEN <<distance_a, self.a>>
        ELSE <<distance_b, self.b>>

\* The projection `res` of point on the line through the segment.
projection(self, point) ==
    LET normb == normalized(sub(self.b, self.a))
        a     == sub(point, self.a)
    IN  add(mul(normb, dot(normb, a)), self.a)

distance_from_point(self, point) ==
    LET res == projection(self, point)
    IN  IF contains(self, res) THEN <<distance(res, point), res>>
        ELSE closer_end(self, point)

reverse(self) == Segment(self.b, self.a, self.layer)

\* ------------------------------------------------------------------- Road
Road(segments) == [segments |-> segments]

RECURSIVE total_length(_, _)
total_length(segments, n) ==
    IF n = 0 THEN 0 ELSE total_length(segments, n - 1) + length(segments[n])

road_length(self) == total_length(self.segments, Len(self.segments))

\* f64::MAX, the initial minimum of distance_from_nearest_point: a distance
\* larger than every haversine distance (at most 20016 km).
F64Max == 2147483647

\* The loop's comparison with <= : the last minimal segment wins.
nearer_or_equal(min, tmp) == IF tmp[1] <= min[1] THEN tmp ELSE min

\* One iteration of the loop of distance_from_nearest_point.
nearer(min, tmp) == IF tmp[1] < min[1] THEN tmp ELSE min

RECURSIVE nearest_upto(_, _, _)
nearest_upto(segments, point, n) ==
    IF n = 0 THEN <<F64Max, Coord(F(0), F(0))>>
    ELSE nearer(nearest_upto(segments, point, n - 1),
                distance_from_point(segments[n], point))

distance_from_nearest_point(self, point) ==
    nearest_upto(self.segments, point, Len(self.segments))

\* Direction
Forward == "Forward"
Backward == "Backward"

\* The backward walk measuring from a, the reversal forgotten.
partial_length_from_a(segment, point, direction) == distance(segment.a, point)

\* What length_from adds for the segment it stops at.
partial_length(segment, point, direction) ==
    IF direction = Forward THEN distance(segment.a, point)
    ELSE distance(reverse(segment).a, point)

\* The loops of length_from: segments[k] is the next segment of the walk,
\* acc the distance accumulated so far.
RECURSIVE forward_walk(_, _, _, _)
forward_walk(segments, point, k, acc) ==
    IF k > Len(segments) THEN acc
    ELSE IF strictly_contains(segments[k], point)
         THEN acc + partial_length(segments[k], point, Forward)
         ELSE forward_walk(segments, point, k + 1, acc + length(segments[k]))

RECURSIVE backward_walk(_, _, _, _)
backward_walk(segments, point, k, acc) ==
    IF k < 1 THEN acc
    ELSE IF strictly_contains(segments[k], point)
         THEN acc + partial_length(segments[k], point, Backward)
         ELSE backward_walk(segments, point, k - 1, acc + length(segments[k]))

\* length_from whose backward walk starts at the segment that holds the point:
\* the segments after it are not counted.
length_from_uncounted(self, point, direction) ==
    IF direction = Forward THEN forward_walk(self.segments, point, 1, 0)
    ELSE LET H == {k \in 1..Len(self.segments) : strictly_contains(self.segments[k], point)}
         IN  IF H = {} THEN backward_walk(self.segments, point, Len(self.segments), 0)
             ELSE backward_walk(self.segments, point, CHOOSE k \in H : \A l \in H : l <= k, 0)

length_from(self, point, direction) ==
    IF direction = Forward THEN forward_walk(self.segments, point, 1, 0)
    ELSE backward_walk(self.segments, point, Len(self.segments), 0)

\* A duplicate test that looks at the last element only.
vec_contains_last_only(vec, c) == Len(vec) > 0 /\ eq(vec[Len(vec)], c)

\* Vec<Coord>::contains, by Coord's PartialEq.
vec_contains(vec, c) == \E k \in 1..Len(vec) : eq(vec[k], c)

\* The body of the inner loop of intersections for one pair of segments.
push_intersection(vec, a_segment, b_segment) ==
    LET found == intersection(a_segment, b_segment)
    IN  IF found = None THEN vec
        ELSE IF vec_contains(vec, found[1]) THEN vec
        ELSE Append(vec, found[1])

\* ----------------------------------------------------------------- inputs
Points == {Coord(F(la), F(lo)) : la \in 0..MaxLat, lo \in 0..MaxLon}

\* The layers of the reference test: none, 0 and -1.
Layers == {None, Some(0), Some(-1)}

Segments == {Segment(a, b, None) : a \in Points, b \in Points}

PairPoints == {Coord(F(la), F(lo)) : la \in 0..MaxPairLat, lo \in 0..MaxPairLon}
LayeredSegments == {Segment(a, b, l) : a \in PairPoints, b \in PairPoints, l \in Layers}

\* A road through the points of path: consecutive segments share an endpoint.
RoadThrough(path) ==
    Road([k \in 1..(Len(path) - 1) |-> Segment(path[k], path[k + 1], None)])

\* The vertex sequences of the roads of n segments through the given points.
Paths(points, n) == [1..(n + 1) -> points]

CrossPoints == {Coord(F(la), F(lo)) : la \in 0..MaxCrossLat, lo \in 0..MaxCrossLon}

\* ------------------------------------------------------------------ state
VARIABLES
    pc,       \* the operation that has run ("start" before any)
    seg1,     \* the segment an operation is called on
    seg2,     \* the other segment of intersection
    query,    \* the point argument
    road,     \* the road an operation is called on
    road2,    \* the other road of intersections
    dir,      \* the direction of length_from
    i, j,     \* the loop indices of intersections (outer, inner)
    result,   \* the vector intersections builds
    ret       \* the value returned by the last operation

vars == <<pc, seg1, seg2, query, road, road2, dir, i, j, result, ret>>

NoSegment == Segment(Coord(F(0), F(0)), Coord(F(0), F(0)), None)
NoRoad == Road(<<>>)
NoPoint == Coord(F(0), F(0))

\* ------------------------------------------- two segments: intersection
InitPair ==
    /\ pc = "start"
    /\ seg1 \in LayeredSegments
    /\ seg2 \in LayeredSegments
    /\ query = NoPoint /\ road = NoRoad /\ road2 = NoRoad /\ dir = Forward
    /\ i = 0 /\ j = 0 /\ result = <<>> /\ ret = None

Intersection ==
    /\ pc = "start"
    /\ pc' = "intersection"
    /\ ret' = intersection(seg1, seg2)
    /\ UNCHANGED <<seg1, seg2, query, road, road2, dir, i, j, result>>

NextPair == Intersection

SpecPair == InitPair /\ [][NextPair]_vars

\* ------------------------------------------------ a segment and a point
InitPoint ==
    /\ pc = "start"
    /\ seg1 \in Segments
    /\ query \in Points
    /\ seg2 = NoSegment /\ road = NoRoad /\ road2 = NoRoad /\ dir = Forward
    /\ i = 0 /\ j = 0 /\ result = <<>> /\ ret = None

Contains ==
    /\ pc = "start"
    /\ pc' = "contains"
    /\ ret' = contains(seg1, query)
    /\ UNCHANGED <<seg1, seg2, query, road, road2, dir, i, j, result>>

StrictlyContains ==
    /\ pc = "start"
    /\ pc' = "strictly_contains"
    /\ ret' = strictly_contains(seg1, query)
    /\ UNCHANGED <<seg1, seg2, query, road, road2, dir, i, j, result>>

DistanceFromPoint ==
    /\ pc = "start"
    /\ pc' = "distance_from_point"
    /\ ret' = distance_from_point(seg1, query)
    /\ UNCHANGED <<seg1, seg2, query, road, road2, dir, i, j, result>>

Reverse ==
    /\ pc = "start"
    /\ pc' = "reverse"
    /\ ret' = reverse(seg1)
    /\ UNCHANGED <<seg1, seg2, query, road, road2, dir, i, j, result>>

NextPoint == Contains \/ StrictlyContains \/ DistanceFromPoint \/ Reverse

SpecPoint == InitPoint /\ [][NextPoint]_vars

\* --------------------------------------------------- a road and a point
InitRoad ==
    /\ pc = "start"
    /\ \E n \in 1..MaxSegs : \E path \in Paths(Points, n) : road = RoadThrough(path)
    /\ query \in Points
    /\ seg1 = NoSegment /\ seg2 = NoSegment /\ road2 = NoRoad /\ dir = Forward
    /\ i = 0 /\ j = 0 /\ result = <<>> /\ ret = None

Length ==
    /\ pc = "start"
    /\ pc' = "length"
    /\ ret' = road_length(road)
    /\ UNCHANGED <<seg1, seg2, query, road, road2, dir, i, j, result>>

LengthFrom ==
    /\ pc = "start"
    /\ \E d \in {Forward, Backward} :
          /\ dir' = d
          /\ ret' = length_from(road, query, d)
    /\ pc' = "length_from"
    /\ UNCHANGED <<seg1, seg2, query, road, road2, i, j, result>>

DistanceFromNearestPoint ==
    /\ pc = "start"
    /\ pc' = "distance_from_nearest_point"
    /\ ret' = distance_from_nearest_point(road, query)
    /\ UNCHANGED <<seg1, seg2, query, road, road2, dir, i, j, result>>

NextRoad == Length \/ LengthFrom \/ DistanceFromNearestPoint

SpecRoad == InitRoad /\ [][NextRoad]_vars

\* ------------------------------------------------ two roads: intersections
InitRoads ==
    /\ pc = "start"
    /\ \E n \in 1..MaxSegs : \E path \in Paths(CrossPoints, n) : road = RoadThrough(path)
    /\ \E n \in 1..MaxSegs : \E path \in Paths(CrossPoints, n) : road2 = RoadThrough(path)
    /\ seg1 = NoSegment /\ seg2 = NoSegment /\ query = NoPoint /\ dir = Forward
    /\ i = 0 /\ j = 0 /\ result = <<>> /\ ret = None

\* let mut result = Vec::new(), and the entry of the loops.
IntersectionsBegin ==
    /\ pc = "start"
    /\ pc' = "intersections"
    /\ i' = 1 /\ j' = 1 /\ result' = <<>>
    /\ UNCHANGED <<seg1, seg2, query, road, road2, dir, ret>>

\* One iteration of the inner loop, for the pair (segments[i], with.segments[j]).
IntersectionsStep ==
    /\ pc = "intersections"
    /\ i <= Len(road.segments)
    /\ result' = push_intersection(result, road.segments[i], road2.segments[j])
    /\ IF j < Len(road2.segments)
       THEN i' = i /\ j' = j + 1
       ELSE i' = i + 1 /\ j' = 1
    /\ UNCHANGED <<pc, seg1, seg2, query, road, road2, dir, ret>>

\* The loops are over: result is returned.
IntersectionsReturn ==
    /\ pc = "intersections"
    /\ i > Len(road.segments)
    /\ pc' = "returned"
    /\ ret' = result
    /\ UNCHANGED <<seg1, seg2, query, road, road2, dir, i, j, result>>

NextRoads == IntersectionsBegin \/ IntersectionsStep \/ IntersectionsReturn

SpecRoads == InitRoads /\ [][NextRoads]_vars

\* ======================================================= segment pairs
Unlayered(s) == Segment(s.a, s.b, None)

\* The suppression condition as the specification words it.
SuppressionCase(a, b) ==
    /\ a.layer # None
    /\ a.layer # b.layer
    /\ ~is_contiguous(a, b)

\* C1: a.intersection(b) is none by suppression exactly when a.layer is
\* present, differs from b.layer and a, b are not contiguous; in every other
\* case it is the result the same two segments give without layers.
C1_LayerRule ==
    pc = "intersection" =>
        ret = IF SuppressionCase(seg1, seg2) THEN None
              ELSE intersection(Unlayered(seg1), Unlayered(seg2))

\* A crossing that the layer rule suppresses.
C1_Witness ==
    /\ pc = "intersection"
    /\ SuppressionCase(seg1, seg2)
    /\ intersection(Unlayered(seg1), Unlayered(seg2)) # None
    /\ ret = None

\* The endpoints of one segment that lie on the other.
TouchingPoints(a, b) ==
    {e \in {a.a, a.b} : contains(b, e)} \cup {e \in {b.a, b.b} : contains(a, e)}

C3_IntersectionSymmetry ==
    (pc = "intersection" /\ seg1.layer = None /\ seg2.layer = None)
        => ret = intersection(seg2, seg1)

\* Two different segments without layers that cross in a point.
C3_Witness ==
    /\ pc = "intersection"
    /\ seg1.layer = None /\ seg2.layer = None
    /\ ret # None
    /\ ~contains(seg1, seg2.a) /\ ~contains(seg1, seg2.b)
    /\ ~contains(seg2, seg1.a) /\ ~contains(seg2, seg1.b)

\* C7: segments on parallel or collinear lines (determinant zero), identical,
\* overlapping and zero-length segments included, have no intersection.
C7_DegenerateIsNone ==
    (pc = "intersection" /\ IsZero(over(seg1, seg2))) => ret = None

\* Two overlapping collinear segments, no layer involved: the result is none.
C7_Witness ==
    /\ pc = "intersection"
    /\ IsZero(over(seg1, seg2))
    /\ seg1.layer = None
    /\ seg1.a # seg1.b /\ seg2.a # seg2.b
    /\ contains(seg1, seg2.a) /\ contains(seg1, seg2.b)
    /\ ret = None

\* ===================================================== segment and point
WithinTolerance(p, e) ==
    /\ LtTolerance(FAbs(FSub(p.lat, e.lat)))
    /\ LtTolerance(FAbs(FSub(p.lon, e.lon)))

\* C6: a segment contains both of its endpoints and strictly contains neither;
\* strictly_contains(p) is contains(p) and p within tolerance of no endpoint.
C6_Endpoints ==
    /\ (pc = "contains" /\ query \in {seg1.a, seg1.b}) => ret = TRUE
    /\ (pc = "strictly_contains" /\ query \in {seg1.a, seg1.b}) => ret = FALSE
    /\ pc = "strictly_contains" =>
          ret = (/\ contains(seg1, query)
                 /\ ~WithinTolerance(query, seg1.a)
                 /\ ~WithinTolerance(query, seg1.b))

\* strictly_contains has been asked of the end b of a segment of non-zero length.
C6_Witness ==
    /\ pc = "strictly_contains"
    /\ query = seg1.b
    /\ seg1.a # seg1.b
    /\ ret = FALSE

\* The point of the segment nearest to p in the plane: a + t(b - a), with
\* t = (b-a).(p-a)/|b-a|^2 clamped to [0, 1]; the point a itself when a = b.
FlatNearest(s, p) ==
    LET d  == sub(s.b, s.a)
        n2 == dot(d, d)
        t  == FDiv(dot(d, sub(p, s.a)), n2)
    IN  IF IsZero(n2) THEN s.a
        ELSE IF FLt(t, F(0)) THEN s.a
        ELSE IF FGt(t, F(1)) THEN s.b
        ELSE add(s.a, mul(d, t))

Holders(r, p) == {k \in 1..Len(r.segments) : strictly_contains(r.segments[k], p)}

Least(S) == CHOOSE k \in S : \A l \in S : k <= l
Greatest(S) == CHOOSE k \in S : \A l \in S : k >= l

RECURSIVE SumLengths(_, _)
SumLengths(r, S) ==
    IF S = {} THEN 0
    ELSE LET k == CHOOSE l \in S : TRUE
         IN  length(r.segments[k]) + SumLengths(r, S \ {k})

Opposite(d) == IF d = Forward THEN Backward ELSE Forward

\* The tolerance of the reference test partial_length_test, 0.1 km, in mm.
TestToleranceMm == 100000

\* C4: on a road of contiguous segments, for a point strictly on exactly one
\* segment, the forward and the backward walk stop at that segment, count
\* every other segment once between them, and their sum is the road's length
\* within the tolerance of the reference test.
C4_LengthAdditivity ==
    (pc = "length_from" /\ Cardinality(Holders(road, query)) = 1) =>
        LET k     == Least(Holders(road, query))
            s     == road.segments[k]
            both   == ret + length_from(road, query, Opposite(dir))
            others == SumLengths(road, (1..Len(road.segments)) \ {k})
        IN  /\ both = others + distance(s.a, query) + distance(s.b, query)
            /\ AbsInt(both - road_length(road)) < TestToleranceMm

\* A road of two segments and a point strictly on exactly one of them.
C4_Witness ==
    /\ pc = "length_from"
    /\ Len(road.segments) = 2
    /\ Cardinality(Holders(road, query)) = 1
    /\ ret > 0

\* C8: length_from is the sum of the lengths of the segments the walk visits
\* before the first one that strictly contains the point, plus the distance
\* from that segment's starting endpoint in the walk direction (a forward, b
\* backward) to the point; it is the whole road length when no segment
\* strictly contains the point.
C8_LengthFrom ==
    pc = "length_from" =>
        LET H == Holders(road, query)
            n == Len(road.segments)
        IN  ret = IF H = {} THEN road_length(road)
                  ELSE IF dir = Forward
                       THEN SumLengths(road, 1..(Least(H) - 1))
                            + distance(road.segments[Least(H)].a, query)
                       ELSE SumLengths(road, (Greatest(H) + 1)..n)
                            + distance(road.segments[Greatest(H)].b, query)

\* A backward walk that stops at the first segment of a road of two segments
\* of different lengths, after counting the second.
C8_Witness ==
    /\ pc = "length_from"
    /\ dir = Backward
    /\ Len(road.segments) = 2
    /\ Holders(road, query) = {1}
    /\ length(road.segments[2]) > 0

\* C10: distance_from_nearest_point returns the pair distance_from_point
\* gives for the first segment, in sequence order, whose distance is the
\* minimum over the road; the point lies on that segment.
C10_NearestPoint ==
    pc = "distance_from_nearest_point" =>
        LET n     == Len(road.segments)
            d(k)  == distance_from_point(road.segments[k], query)
            first == CHOOSE k \in 1..n :
                        /\ \A l \in 1..n : d(k)[1] <= d(l)[1]
                        /\ \A l \in 1..(k - 1) : d(l)[1] > d(k)[1]
        IN  /\ ret = d(first)
            /\ contains(road.segments[first], ret[2])

\* Two segments at the same minimal distance, with different nearest points.
C10_Witness ==
    /\ pc = "distance_from_nearest_point"
    /\ Len(road.segments) = 2
    /\ distance_from_point(road.segments[1], query)[1]
         = distance_from_point(road.segments[2], query)[1]
    /\ distance_from_point(road.segments[1], query)[2]
         # distance_from_point(road.segments[2], query)[2]

\* ================================================================ two roads
\* The intersection of the t-th pair of the double loop, t = (i-1)*m + j.
PairCount == Len(road.segments) * Len(road2.segments)
PairResult(t) ==
    LET m == Len(road2.segments)
    IN  intersection(road.segments[((t - 1) \div m) + 1], road2.segments[((t - 1) % m) + 1])

\* The results of all the pairs, in the order of the double loop.
PairResults == [t \in 1..PairCount |-> PairResult(t)]

NoDuplicates(vec) ==
    \A k \in 1..Len(vec) : \A l \in 1..Len(vec) : k # l => ~eq(vec[k], vec[l])

\* C9: intersections returns exactly the points in which some segment of self
\* meets some segment of the other road, each once, in the order of their
\* first discovery by the double loop; the partial result never holds a
\* duplicate.
C9_Intersections ==
    /\ NoDuplicates(result)
    /\ pc = "returned" =>
          LET found    == PairResults
              first(c) == Least({t \in 1..PairCount : found[t] = Some(c)})
          IN  /\ \A k \in 1..Len(ret) : \E t \in 1..PairCount : found[t] = Some(ret[k])
              /\ \A t \in 1..PairCount :
                    found[t] # None => \E k \in 1..Len(ret) : ret[k] = found[t][1]
              /\ NoDuplicates(ret)
              /\ \A k \in 1..(Len(ret) - 1) : first(ret[k]) < first(ret[k + 1])

\* Two points returned, one of them found by more than one pair of segments.
C9_Witness ==
    /\ pc = "returned"
    /\ Len(ret) = 2
    /\ \E t \in 1..PairCount : \E u \in 1..PairCount :
          t # u /\ PairResult(t) # None /\ PairResult(t) = PairResult(u)
====
